---- MODULE Spec2Model ----
(***************************************************************************)
(* State-machine model of pdf_ocr_pipeline: the batch driver cli.main      *)
(* (pre-check, ThreadPoolExecutor fan-out, as_completed fan-in, reorder,   *)
(* print) and the per-document pipeline ocr.ocr_pdf (rasterize into a      *)
(* temporary directory, recognize page by page, wrap in page markers), with *)
(* the capability flag _STREAMING_SUPPORTED, its probe and the streaming    *)
(* path of ocr_pdf.                                                         *)
(***************************************************************************)
EXTENDS Integers, Sequences, FiniteSets, TLC

(***************************************************************************)
(* Bounds of the model.                                                    *)
(***************************************************************************)
\* longest args.pdfs list explored
MaxDocs == 2

\* most pages of a document handed directly to ocr_pdf
MaxPages == 3

\* most distinct non-empty recognizer outputs on such a document
NumTexts == 2

\* worker threads of ThreadPoolExecutor()
MaxWorkers == 2

\* largest exit code of an external process
MaxExit == 2

(***************************************************************************)
(* A document: <<directory, final component, pages, texts>>.  The first    *)
(* two make up its path; pages is the number of pages of the file and      *)
(* texts the number of distinct non-empty texts tesseract may read from    *)
(* one of its pages (it may also read nothing).                            *)
(***************************************************************************)
\* the documents given to the command line
Paths == { <<"in", "a.pdf", 2, 1>>, <<"old", "b.pdf", 1, 1>> }

\* the documents given to ocr_pdf by a direct caller
OcrDocs == { <<"doc", "scan.pdf", n, t>> : n \in 1..MaxPages, t \in {NumTexts} }

\* pages of the file: pdftoppm writes one page-N.ppm per page
DocPages(pdf_path) == pdf_path[3]

\* what tesseract may print for a page of the file; 0 is empty output
DocTexts(pdf_path) == 0..pdf_path[4]

\* pathlib.Path.name: the final path component
Name(pdf_path) == pdf_path[2]

\* ocr._REQUIRED_BINARIES
REQUIRED_BINARIES == <<"pdftoppm", "tesseract">>

\* the pool sizes explored: ThreadPoolExecutor() takes
\* min(32, (os.cpu_count() or 1) + 4) workers; scaled down to a pool of one
\* worker (every batch of two or more documents queues) and a pool of
\* MaxWorkers
PoolSizes == {1, MaxWorkers}

\* argparse nargs="+": one or more paths, duplicates allowed
ArgLists == UNION { [1..n -> Paths] : n \in 1..MaxDocs }

(***************************************************************************)
(* Exception classes (errors.py and the builtins the handlers tell apart). *)
(***************************************************************************)
PipelineErrorTypes == {"PipelineError", "MissingBinaryError", "OcrError", "LlmError"}

\* subclasses of builtins.Exception that can leave a task
ExceptionTypes == PipelineErrorTypes \cup {"Exception", "OSError", "KeyError"}

\* SystemExit derives from BaseException only
BaseExceptionTypes == ExceptionTypes \cup {"SystemExit"}

(***************************************************************************)
(* Text as a sequence of tokens.  Recognized text is an opaque token.      *)
(***************************************************************************)
\* "<page number {idx}>"
OpenTag(idx) == [k |-> "open", v |-> idx]

\* "</page number {idx}>"
CloseTag(idx) == [k |-> "close", v |-> idx]

\* "\n"
NL == [k |-> "nl", v |-> 0]

\* the recognized text of one page
Txt(part) == [k |-> "text", v |-> part]

\* (stdout or b"").decode("utf-8", errors="replace"): outputs are numbered,
\* 0 is the empty output and decodes to the empty string, every other
\* output decodes to its own string
Decode(stdout) == stdout

\* f"<page number {idx}>\n{part}\n</page number {idx}>"
PageBlock(idx, part) ==
    << OpenTag(idx), NL, Txt(part), NL, CloseTag(idx) >>

\* "\n".join(pages)
RECURSIVE JoinNL(_)
JoinNL(pages) ==
    IF pages = << >> THEN << >>
    ELSE IF Len(pages) = 1 THEN pages[1]
    ELSE pages[1] \o << NL >> \o JoinNL(Tail(pages))

\* enumerate(ocr_text_parts, start=1)
EnumStart == 1

\* for idx, part in enumerate(ocr_text_parts, start=1): pages.append(...); join
WrapPages(ocr_text_parts) ==
    JoinNL([ i \in 1..Len(ocr_text_parts) |->
               PageBlock(i + EnumStart - 1, ocr_text_parts[i]) ])

(***************************************************************************)
(* sorted(Path(tmpdir).glob("page-*.ppm")): image files are numbered by    *)
(* pdftoppm with zero padding, so filename order is numeric order.         *)
(***************************************************************************)
RECURSIVE InsertSorted(_, _)
InsertSorted(x, s) ==
    IF s = << >> THEN << x >>
    ELSE IF x <= s[1] THEN << x >> \o s
    ELSE << s[1] >> \o InsertSorted(x, Tail(s))

RECURSIVE SortAsc(_)
SortAsc(s) == IF s = << >> THEN << >> ELSE InsertSorted(s[1], SortAsc(Tail(s)))

\* faulty variant: keeps the directory-listing order
GlobOrder(globbed) == globbed

sorted(globbed) == SortAsc(globbed)

\* the orders in which glob may list the files page-1 .. page-k
GlobListings(k) ==
    { s \in [1..k -> 1..k] : \A i, j \in 1..k : i # j => s[i] # s[j] }

(***************************************************************************)
(* Python dict, insertion ordered: a sequence of <<key, value>> pairs with *)
(* distinct keys; assignment to an existing key replaces the value in      *)
(* place.                                                                  *)
(***************************************************************************)
DictKeys(d) == { d[i][1] : i \in 1..Len(d) }

DictGet(d, key) == d[CHOOSE i \in 1..Len(d) : d[i][1] = key][2]

\* faulty variant: a value with an "error" key is not stored
DictSetErrorsDropped(d, key, val) ==
    IF "error" \in DOMAIN val
    THEN d
    ELSE IF key \in DictKeys(d)
    THEN [ i \in 1..Len(d) |-> IF d[i][1] = key THEN << key, val >> ELSE d[i] ]
    ELSE Append(d, << key, val >>)

DictSet(d, key, val) ==
    IF key \in DictKeys(d)
    THEN [ i \in 1..Len(d) |-> IF d[i][1] = key THEN << key, val >> ELSE d[i] ]
    ELSE Append(d, << key, val >>)

DictValues(d) == [ i \in 1..Len(d) |-> d[i][2] ]

VARIABLES
    binaries,           \* executables found on the search path
    existing,           \* paths for which Path.is_file() is true
    pdfs,               \* args.pdfs
    max_workers,        \* size of the pool of ThreadPoolExecutor()
    STREAMING_SUPPORTED,\* ocr._STREAMING_SUPPORTED
    pc,                 \* position of the main thread
    chk,                \* index of the next path of the existence loop
    sub,                \* number of futures submitted so far
    tstate,             \* per future: "new", "pending", "running", "done"
    tstep,              \* per future: position inside ocr_pdf
    images,             \* per future: sorted image files of the tmpdir
    ocr_text_parts,     \* per future: recognized page texts so far
    calls,              \* per future: history of run_cmd invocations (for a
                        \* tesseract call: image and stdout; for pdftoppm:
                        \* the number of image files written)
    tmpdir,             \* per future: name of its TemporaryDirectory, 0 = none
    fs,                 \* names of the pdf_ocr_pipeline_* directories that exist
    probes,             \* history of _detect_streaming_support invocations
    targ,               \* per future: the arguments bound by executor.submit
    tresult,            \* per future: outcome stored in the Future
    yielded,            \* futures already yielded by as_completed
    completed,          \* cli.main's dict completed
    results,            \* cli.main's list results
    printed,            \* arguments of the print calls, in order
    log_errors,         \* number of cli logger.error calls
    exit_status,        \* -1 while running, else the process exit status
    analyze,            \* ProcessSettings.analyze of a process_pdf call
    ret,                \* what the process_pdf call returned or raised
    documents,          \* summarize.main: the list read from stdin
    llm_calls,          \* history of requests to the language model
    log_warnings,       \* number of summarize logger.warning calls
    OPENAI_API_KEY,     \* the environment variable, as llm_client reads it
    llm_client,         \* llm_client._client: 0 is None, else an instance
    client_lock,        \* llm_client._client_lock: 0 is free, else the holder
    instances,          \* number of OpenAI(api_key=...) instances constructed
    tclient             \* per thread: the local client of _get_client

vars == << binaries, existing, pdfs, max_workers, STREAMING_SUPPORTED,
           pc, chk, sub, tstate, tstep, images, ocr_text_parts, calls,
           tmpdir, fs, probes, targ, tresult, yielded, completed, results,
           printed, log_errors, exit_status, analyze, ret, documents,
           llm_calls, log_warnings, OPENAI_API_KEY, llm_client, client_lock,
           instances, tclient >>

envVars == << binaries, existing, pdfs, max_workers >>
libVars == << analyze, ret, documents, llm_calls, log_warnings >>
llmVars == << OPENAI_API_KEY, llm_client, client_lock, instances, tclient >>
mainVars == << pc, chk, sub, yielded, completed, results, printed,
               log_errors, exit_status >>
taskVars == << tstate, tstep, images, ocr_text_parts, calls, tmpdir, fs,
              probes, targ, tresult >>

Futures == 1..Len(pdfs)

\* the positional arguments of one ocr_pdf call
CallArg(pdf_path, dpi, lang) == [pdf_path |-> pdf_path, dpi |-> dpi, lang |-> lang]

\* a future that has not been submitted has no arguments
NoArg == CallArg(<< >>, "", "")

\* faulty variant: every task gets the first path
TaskArgFirst(args_pdfs, i) == CallArg(args_pdfs[1], "args.dpi", "args.lang")

\* executor.submit(ocr_pdf, pdf_path, args.dpi, args.lang) for the i-th path
TaskArg(args_pdfs, i) == CallArg(args_pdfs[i], "args.dpi", "args.lang")

NoResult == [type |-> "none", val |-> ""]

\* an exception instance / a return value stored in a Future
Exc(type, msg) == [type |-> type, val |-> msg]
\* a return value; the field raised sets it apart from an exception
Ok(text) == [type |-> "ok", val |-> text, raised |-> FALSE]

(***************************************************************************)
(* ocr.run_cmd: the ways one invocation of an executable can end.          *)
(* FileNotFoundError becomes MissingBinaryError, an exit code outside      *)
(* ok_exit_codes becomes CalledProcessError, else the process is returned. *)
(***************************************************************************)
\* faulty variant: a missing executable is reported like one that ran
RunCmdOutcomesNoLookup(bin, onPath) == {"ok", "CalledProcessError"}

\* the exit codes a process may end with
ExitCodes == 0..MaxExit

\* ok_exit_codes: Tuple[int, ...] = (0,)
DefaultOkExitCodes == {0}

\* faulty variant: only exit code 0 is accepted, whatever ok_exit_codes says
RunCmdZeroOnly(bin, onPath, returncode, ok_exit_codes) ==
    IF bin \notin onPath THEN "MissingBinaryError"
    ELSE IF returncode # 0 THEN "CalledProcessError"
    ELSE "ok"

\* run_cmd: subprocess.run raises FileNotFoundError -> MissingBinaryError;
\* "if proc.returncode not in ok_exit_codes" -> CalledProcessError; else
\* "return proc"
RunCmd(bin, onPath, returncode, ok_exit_codes) ==
    IF bin \notin onPath THEN "MissingBinaryError"
    ELSE IF returncode \notin ok_exit_codes THEN "CalledProcessError"
    ELSE "ok"

\* proc.stdout / proc.stderr: the bytes of the pipe, or None (-1) when the
\* stream was not captured
Captured(bytes, capture_output) == IF capture_output THEN bytes ELSE -1

\* what run_cmd hands to its caller: the CompletedProcess, or the exception
\* with the attributes it was built with
RunCmdResult(bin, onPath, returncode, out, err, ok_exit_codes, capture_output) ==
    LET kind == RunCmd(bin, onPath, returncode, ok_exit_codes) IN
    IF kind = "MissingBinaryError"
    THEN [kind |-> kind, filename |-> bin]
    ELSE IF kind = "CalledProcessError"
    THEN [kind |-> kind, returncode |-> returncode,
          output |-> Captured(out, capture_output),
          stderr |-> Captured(err, capture_output)]
    ELSE [kind |-> "returned", returncode |-> returncode,
          stdout |-> Captured(out, capture_output),
          stderr |-> Captured(err, capture_output)]

\* the ways a run_cmd call of ocr_pdf (default ok_exit_codes) can end
RunCmdOutcomes(bin, onPath) ==
    { RunCmd(bin, onPath, returncode, DefaultOkExitCodes) :
        returncode \in ExitCodes }

\* logger.error calls made by run_cmd itself: "Missing binary: %s"
RunCmdErrors(o) == IF o = "MissingBinaryError" THEN 1 ELSE 0

\* one entry of the invocation history.  mode tells how the tool was run:
\* "prefix" (pdftoppm writing page-N.ppm files), "stdout" (pdftoppm with the
\* output prefix "-"), "image" (tesseract on an image file, arg is the
\* file's page number) or "stdin" (tesseract reading the bytes pipe);
\* pipe is what pdftoppm wrote to stdout (0 = no bytes) or what tesseract
\* was given as input
CallRec(tool, mode, arg, pipe, rc, out) ==
    [tool |-> tool, mode |-> mode, arg |-> arg, pipe |-> pipe, rc |-> rc,
     out |-> out, logged |-> RunCmdErrors(rc)]

\* pdftoppm_res.stdout: no bytes, or the raster bytes of the document
Bytes(out) == IF out THEN 1 ELSE 0

\* what ocr_pdf raises when run_cmd(bin) did not return
RunCmdFailure(bin, o, msg) ==
    IF o = "CalledProcessError"
    THEN Exc("OcrError", msg)
    ELSE Exc("MissingBinaryError", bin)

(***************************************************************************)
(* ocr_pdf, file-based path: what follows the pdftoppm invocation.         *)
(* k image files were written, out tells whether stdout holds bytes.       *)
(***************************************************************************)
\* faulty variant: hands an empty stdout to tesseract as well
AfterRasterizeAlwaysStdin(o, k, out) ==
    IF o # "ok"
    THEN [step |-> "done", res |-> RunCmdFailure("pdftoppm", o, "pdftoppm failed")]
    ELSE IF k = 0
    THEN [step |-> "tess_stdin", res |-> NoResult]
    ELSE [step |-> "pages", res |-> NoResult]

AfterRasterize(o, k, out) ==
    IF o # "ok"
    THEN [step |-> "done", res |-> RunCmdFailure("pdftoppm", o, "pdftoppm failed")]
    ELSE IF k = 0 /\ out
    THEN [step |-> "tess_stdin", res |-> NoResult]
    ELSE IF k = 0
    THEN [step |-> "done", res |-> Exc("OcrError", "No images produced by pdftoppm")]
    ELSE [step |-> "pages", res |-> NoResult]

\* faulty variant: returns the text without the page markers
AfterTessStdinUntagged(o, b) ==
    IF o # "ok"
    THEN [step |-> "done",
          res |-> RunCmdFailure("tesseract", o,
                                "tesseract failed during streaming fallback")]
    ELSE [step |-> "done", res |-> Ok(<< Txt(Decode(b)) >>)]

\* the "streaming fallback" tesseract call on the bytes of stdout
AfterTessStdin(o, b) ==
    IF o # "ok"
    THEN [step |-> "done",
          res |-> RunCmdFailure("tesseract", o,
                                "tesseract failed during streaming fallback")]
    ELSE [step |-> "done", res |-> Ok(PageBlock(1, Decode(b)))]

\* faulty variant: swallows a failed page and goes on with the next image
AfterTessPageSkipFailed(parts, k, o, b) ==
    LET p == Append(parts, IF o = "ok" THEN Decode(b) ELSE 0) IN
    IF Len(p) = k
    THEN [step |-> "done", parts |-> << >>, res |-> Ok(WrapPages(p))]
    ELSE [step |-> "pages", parts |-> p, res |-> NoResult]

\* faulty variant: walks the image list from its end
NextImageReversed(imgs, parts) == imgs[Len(imgs) - Len(parts)]

\* "for img_path in images": the image of the iteration that follows parts
NextImage(imgs, parts) == imgs[Len(parts) + 1]

\* one iteration of "for img_path in images", and the return after the last
AfterTessPage(parts, k, o, b) ==
    IF o # "ok"
    THEN [step |-> "done", parts |-> << >>,
          res |-> RunCmdFailure("tesseract", o, "tesseract failed on image")]
    ELSE LET p == Append(parts, Decode(b)) IN
         IF Len(p) = k
         THEN [step |-> "done", parts |-> << >>, res |-> Ok(WrapPages(p))]
         ELSE [step |-> "pages", parts |-> p, res |-> NoResult]

(***************************************************************************)
(* The capability flag _STREAMING_SUPPORTED ("None", "True" or "False"),   *)
(* its probe _detect_streaming_support and the streaming path of ocr_pdf.  *)
(***************************************************************************)
\* "if _STREAMING_SUPPORTED:" selects the fast path, else the with-block
SelectStep(flag) == IF flag = "True" THEN "stream" ELSE "rasterize"

\* faulty variant: takes the fast path whatever the flag says
EnterStepStreamFirst(flag) == IF flag = "None" THEN "probe" ELSE "stream"

\* "if _STREAMING_SUPPORTED is None:" runs the probe first
EnterStep(flag) == IF flag = "None" THEN "probe" ELSE SelectStep(flag)

\* the ways the probe can go: write_bytes raises; subprocess.run raises
\* FileNotFoundError, TimeoutExpired or another OSError (PermissionError,
\* no more processes, ...); pdftoppm ends with or without bytes on stdout
ProbeOutcomes(onPath) ==
    {"write_error"} \cup
    (IF "pdftoppm" \notin onPath
     THEN {"FileNotFoundError"}
     ELSE {"TimeoutExpired", "OSError", "bytes", "empty"})

\* the outcomes in which the probe could not be written or run
ProbeFailures == {"write_error", "FileNotFoundError", "TimeoutExpired", "OSError"}

\* _detect_streaming_support: "except Exception" around write_bytes and
\* "except (FileNotFoundError, subprocess.SubprocessError)" around
\* subprocess.run return False; TimeoutExpired is a SubprocessError, any
\* other OSError is neither and leaves the function; else bool(stdout)
DetectStreamingSupport(o) ==
    IF o \in {"write_error", "FileNotFoundError", "TimeoutExpired"}
    THEN [raised |-> FALSE, ret |-> "False"]
    ELSE IF o = "OSError"
    THEN [raised |-> TRUE, ret |-> "raised"]
    ELSE [raised |-> FALSE, ret |-> IF o = "bytes" THEN "True" ELSE "False"]

\* faulty variant: a failed fast-path pdftoppm call is treated like one
\* that returned bytes
AfterStreamIgnoresFailure(o, out, flag) ==
    IF o = "MissingBinaryError"
    THEN [step |-> "done", flag |-> flag,
          res |-> RunCmdFailure("pdftoppm", o, "pdftoppm failed")]
    ELSE IF o = "ok" /\ ~out
    THEN [step |-> "rasterize", flag |-> "False", res |-> NoResult]
    ELSE [step |-> "stream_tess", flag |-> flag, res |-> NoResult]

\* fast path, after run_cmd(["pdftoppm", "-r", dpi, pdf_path, "-"]): no
\* stdout sets the flag to False and continues with the with-block
AfterStream(o, out, flag) ==
    IF o # "ok"
    THEN [step |-> "done", flag |-> flag,
          res |-> RunCmdFailure("pdftoppm", o, "pdftoppm failed")]
    ELSE IF ~out
    THEN [step |-> "rasterize", flag |-> "False", res |-> NoResult]
    ELSE [step |-> "stream_tess", flag |-> flag, res |-> NoResult]

\* fast path, after the tesseract call on the piped bytes: the decoded
\* stdout is returned as it is
AfterStreamTess(o, b) ==
    IF o # "ok"
    THEN [step |-> "done",
          res |-> RunCmdFailure("tesseract", o,
                                "tesseract failed during streaming path")]
    ELSE [step |-> "done", res |-> Ok(<< Txt(Decode(b)) >>)]

(***************************************************************************)
(* TemporaryDirectory(prefix="pdf_ocr_pipeline_"): mkdtemp takes a name    *)
(* that does not exist; leaving the with-block removes the directory       *)
(* whether or not an exception is passing through.                         *)
(***************************************************************************)
TempNames == 1..MaxWorkers

Mkdtemp(dirs) == TempNames \ dirs

\* faulty variant: removes the directory only when no exception passes
ExitWithOnSuccess(dirs, d, res) == IF res.type = "ok" THEN dirs \ {d} ELSE dirs

ExitWith(dirs, d, res) == dirs \ {d}

(***************************************************************************)
(* cli.main: the handlers around future.result().                          *)
(***************************************************************************)
\* faulty variant: catches BaseException
CaughtAll(type) == type \in BaseExceptionTypes

\* faulty variant: lets PipelineError through to the outer handler
CaughtNoPipelineError(type) == type \in ExceptionTypes \ PipelineErrorTypes

\* "except PipelineError" and "except Exception" around future.result()
Caught(type) == type \in PipelineErrorTypes \/ type \in ExceptionTypes

\* faulty variant: adds an empty ocr_text to an error record
RecordForBothKeys(pdf_path, res) ==
    IF res.type = "ok"
    THEN [file |-> Name(pdf_path), ocr_text |-> res.val]
    ELSE [file |-> Name(pdf_path), ocr_text |-> << >>, error |-> res.val]

\* the dict stored into completed[pdf_path]; str(exc) is the message
RecordFor(pdf_path, res) ==
    IF res.type = "ok"
    THEN [file |-> Name(pdf_path), ocr_text |-> res.val]
    ELSE [file |-> Name(pdf_path), error |-> res.val]

\* faulty variant: emits the records in completion order
ReorderedByCompletion(args_pdfs, done) == DictValues(done)

\* for pdf_path in args.pdfs: results.append(completed[pdf_path])
Reordered(args_pdfs, done) ==
    [ i \in 1..Len(args_pdfs) |-> DictGet(done, args_pdfs[i]) ]

\* faulty variant: starts scheduling after the first path was found
AfterCheckFirstOnly(i, n) == "submit"

\* the existence loop: on to the next path, or past the loop
AfterCheck(i, n) == IF i = n THEN "submit" ELSE "precheck"

\* faulty variant: logs the error where it is raised and again in the handler
FatalExitLogTwice(logged) ==
    [pc |-> "fatal", log_errors |-> logged + 2, exit_status |-> 1]

\* except PipelineError as exc: logger.error(str(exc)); sys.exit(1)
FatalExit(logged) ==
    [pc |-> "fatal", log_errors |-> logged + 1, exit_status |-> 1]

(***************************************************************************)
(* Initial state: a process about to import pdf_ocr_pipeline.cli, with     *)
(* the shipped capability flag (_STREAMING_SUPPORTED = False).             *)
(***************************************************************************)
Init ==
    /\ binaries \in SUBSET {"pdftoppm", "tesseract"}
    /\ pdfs \in ArgLists
    /\ max_workers \in PoolSizes
    \* is_file is only ever asked about the requested paths
    /\ existing \in SUBSET { pdfs[i] : i \in 1..Len(pdfs) }
    /\ STREAMING_SUPPORTED = "False"
    /\ pc = "import"
    /\ chk = 1
    /\ sub = 0
    /\ tstate = [f \in Futures |-> "new"]
    /\ tstep = [f \in Futures |-> "idle"]
    /\ images = [f \in Futures |-> << >>]
    /\ ocr_text_parts = [f \in Futures |-> << >>]
    /\ calls = [f \in Futures |-> << >>]
    /\ tmpdir = [f \in Futures |-> 0]
    /\ targ = [f \in Futures |-> NoArg]
    /\ fs = {}
    /\ probes = << >>
    /\ tresult = [f \in Futures |-> NoResult]
    /\ yielded = {}
    /\ completed = << >>
    /\ results = << >>
    /\ printed = << >>
    /\ log_errors = 0
    /\ exit_status = -1
    /\ analyze = FALSE
    /\ ret = NoResult
    /\ documents = << >>
    /\ llm_calls = << >>
    /\ log_warnings = 0
    /\ OPENAI_API_KEY = "key"
    /\ llm_client = 0
    /\ client_lock = 0
    /\ instances = 0
    /\ tclient = [f \in Futures |-> 0]

(***************************************************************************)
(* Main thread.                                                            *)
(***************************************************************************)
\* import of ocr.py: the module-level availability check of the binaries,
\* skipped when "pytest" is in sys.modules
ImportOcr ==
    /\ pc = "import"
    /\ \E pytest_loaded \in BOOLEAN :
       IF ~pytest_loaded /\ \E i \in 1..Len(REQUIRED_BINARIES) :
                               REQUIRED_BINARIES[i] \notin binaries
       THEN \* MissingBinaryError leaves the import uncaught: traceback, status 1
            /\ pc' = "import_error"
            /\ exit_status' = 1
       ELSE /\ pc' = "precheck"
            /\ UNCHANGED exit_status
    /\ UNCHANGED << envVars, llmVars, libVars, STREAMING_SUPPORTED, taskVars, chk, sub, yielded,
                    completed, results, printed, log_errors >>

\* one iteration of "for pdf_path in args.pdfs: if not pdf_path.is_file()"
CheckFile ==
    /\ pc = "precheck"
    /\ chk <= Len(pdfs)
    /\ IF pdfs[chk] \notin existing
       THEN \* raise PipelineError -> except PipelineError: log, sys.exit(1)
            /\ pc' = FatalExit(log_errors).pc
            /\ log_errors' = FatalExit(log_errors).log_errors
            /\ exit_status' = FatalExit(log_errors).exit_status
            /\ UNCHANGED chk
       ELSE /\ pc' = AfterCheck(chk, Len(pdfs))
            /\ chk' = chk + 1
            /\ UNCHANGED << log_errors, exit_status >>
    /\ UNCHANGED << envVars, llmVars, libVars, STREAMING_SUPPORTED, taskVars, sub, yielded,
                    completed, results, printed >>

\* one executor.submit(ocr_pdf, pdf_path, args.dpi, args.lang)
Submit ==
    /\ pc = "submit"
    /\ sub < Len(pdfs)
    /\ sub' = sub + 1
    /\ tstate' = [tstate EXCEPT ![sub + 1] = "pending"]
    /\ targ' = [targ EXCEPT ![sub + 1] = TaskArg(pdfs, sub + 1)]
    /\ pc' = IF sub + 1 = Len(pdfs) THEN "collect" ELSE "submit"
    /\ UNCHANGED << envVars, llmVars, libVars, STREAMING_SUPPORTED, chk, tstep, images,
                    ocr_text_parts, calls, tmpdir, fs, probes, tresult,
                    yielded, completed,
                    results, printed, log_errors, exit_status >>

\* one iteration of "for future in as_completed(futures)": future.result()
\* returns, or raises what a handler of the loop turns into a record, or
\* raises what leaves the loop and enters ThreadPoolExecutor.__exit__
Collect(f) ==
    /\ pc = "collect"
    /\ f \in Futures \ yielded
    /\ tstate[f] = "done"
    /\ yielded' = yielded \cup {f}
    /\ IF tresult[f].type = "ok" \/ Caught(tresult[f].type)
       THEN /\ completed' =
                 DictSet(completed, pdfs[f], RecordFor(pdfs[f], tresult[f]))
            /\ log_errors' =
                 IF tresult[f].type = "ok" THEN log_errors ELSE log_errors + 1
            /\ UNCHANGED pc
       ELSE /\ pc' = IF tresult[f].type \in PipelineErrorTypes
                     THEN "unwinding_pipeline_error"
                     ELSE "unwinding"
            /\ UNCHANGED << completed, log_errors >>
    /\ UNCHANGED << envVars, llmVars, libVars, STREAMING_SUPPORTED, taskVars, chk, sub,
                    results, printed, exit_status >>

\* faulty variant: leaves the loop after the first future
ExhaustedAfterFirst(seen, fs_all) == seen # {}

\* as_completed(futures) stops when it has yielded every future
Exhausted(seen, fs_all) == seen = fs_all

\* as_completed is exhausted: the reordering loop over args.pdfs
Reorder ==
    /\ pc = "collect"
    /\ Exhausted(yielded, Futures)
    /\ IF \A i \in 1..Len(pdfs) : pdfs[i] \in DictKeys(completed)
       THEN /\ results' = Reordered(pdfs, completed)
            /\ pc' = "emit"
            /\ UNCHANGED exit_status
       ELSE \* KeyError is no PipelineError: it leaves main uncaught
            /\ pc' = "crashed"
            /\ exit_status' = 1
            /\ UNCHANGED results
    /\ UNCHANGED << envVars, llmVars, libVars, STREAMING_SUPPORTED, taskVars, chk, sub, yielded,
                    completed, printed, log_errors >>

\* print(json.dumps(results, ...)); a BrokenPipeError of print is suppressed,
\* so main returns either way
Emit ==
    /\ pc = "emit"
    /\ printed' = Append(printed, results)
    /\ pc' = "done"
    /\ exit_status' = 0
    /\ UNCHANGED << envVars, llmVars, libVars, STREAMING_SUPPORTED, taskVars, chk, sub, yielded,
                    completed, results, log_errors >>

(***************************************************************************)
(* Worker threads of the ThreadPoolExecutor.                               *)
(***************************************************************************)
Running == { f \in Futures : tstate[f] = "running" }

\* faulty variant: a new thread for every work item
WorkerFreeAlways(running, size) == TRUE

\* a queued work item is taken when fewer than max_workers threads are busy
\* faulty variant: one thread of the pool never takes work
WorkerFreeOffByOne(running, size) == Cardinality(running) < size - 1

WorkerFree(running, size) == Cardinality(running) < size

\* a worker thread takes the oldest queued work item
StartTask(f) ==
    /\ tstate[f] = "pending"
    /\ \A g \in Futures : tstate[g] = "pending" => f <= g
    /\ WorkerFree(Running, max_workers)
    /\ tstate' = [tstate EXCEPT ![f] = "running"]
    /\ tstep' = [tstep EXCEPT ![f] = "enter"]
    /\ UNCHANGED << envVars, llmVars, libVars, STREAMING_SUPPORTED, mainVars, images,
                    ocr_text_parts, calls, tmpdir, fs, probes, tresult, targ >>

\* "with TemporaryDirectory(prefix="pdf_ocr_pipeline_") as tmpdir"
EnterTmp(f) ==
    \E d \in Mkdtemp(fs) :
        /\ fs' = fs \cup {d}
        /\ tmpdir' = [tmpdir EXCEPT ![f] = d]

\* ocr_pdf reads _STREAMING_SUPPORTED: None leads to the probe, True to the
\* fast path, False into the with-block of the temporary-directory path
OcrEnter(f) ==
    /\ tstate[f] = "running"
    /\ tstep[f] = "enter"
    /\ tstep' = [tstep EXCEPT ![f] = EnterStep(STREAMING_SUPPORTED)]
    /\ IF EnterStep(STREAMING_SUPPORTED) = "rasterize"
       THEN EnterTmp(f)
       ELSE UNCHANGED << tmpdir, fs >>
    /\ UNCHANGED << envVars, llmVars, libVars, STREAMING_SUPPORTED, mainVars, tstate, images,
                    ocr_text_parts, calls, probes, tresult, targ >>

\* the local state of ocr_pdf after a step, or its end (Future is set, the
\* with-block is left)
Advance(f, nxt, imgs, parts, call) ==
    /\ tstep' = [tstep EXCEPT ![f] = nxt.step]
    /\ tstate' = [tstate EXCEPT ![f] = IF nxt.step = "done" THEN "done" ELSE @]
    /\ tresult' = [tresult EXCEPT ![f] = nxt.res]
    /\ images' = [images EXCEPT ![f] = IF nxt.step = "done" THEN << >> ELSE imgs]
    /\ ocr_text_parts' = [ocr_text_parts EXCEPT ![f] = parts]
    /\ calls' = [calls EXCEPT ![f] = Append(@, call)]
    /\ fs' = IF nxt.step = "done" THEN ExitWith(fs, tmpdir[f], nxt.res) ELSE fs
    /\ tmpdir' = [tmpdir EXCEPT ![f] = IF nxt.step = "done" THEN 0 ELSE @]
    /\ UNCHANGED << probes, targ >>

\* run_cmd(["pdftoppm", "-r", dpi, pdf_path, prefix_path]) and the glob
Rasterize(f) ==
    /\ tstate[f] = "running"
    /\ tstep[f] = "rasterize"
    /\ \E o \in RunCmdOutcomes("pdftoppm", binaries) :
       \E k \in {0, DocPages(targ[f].pdf_path)}, out \in BOOLEAN :
       \E globbed \in GlobListings(k) :
          /\ o # "ok" => k = 0 /\ ~out
          /\ k > 0 => ~out
          /\ Advance(f, AfterRasterize(o, k, out), sorted(globbed), << >>,
                     CallRec("pdftoppm", "prefix", 0, Bytes(out), o, k))
    /\ UNCHANGED << envVars, llmVars, libVars, STREAMING_SUPPORTED, mainVars >>

\* the stdout of the pdftoppm call that ocr_pdf made last
LastStdout(f) == calls[f][Len(calls[f])].pipe

\* run_cmd(["tesseract", ..., "-", "stdout"], input=pdftoppm_res.stdout)
TessStdin(f) ==
    /\ tstate[f] = "running"
    /\ tstep[f] = "tess_stdin"
    /\ \E o \in RunCmdOutcomes("tesseract", binaries) :
       \E b \in DocTexts(targ[f].pdf_path) :
          /\ o # "ok" => b = 0
          /\ Advance(f, AfterTessStdin(o, b), << >>, << >>,
                     CallRec("tesseract", "stdin", 0, LastStdout(f), o, b))
    /\ UNCHANGED << envVars, llmVars, libVars, STREAMING_SUPPORTED, mainVars >>

\* run_cmd(["tesseract", img_path, "stdout", ...]) for the next image
TessPage(f) ==
    /\ tstate[f] = "running"
    /\ tstep[f] = "pages"
    /\ \E o \in RunCmdOutcomes("tesseract", binaries) :
       \E b \in DocTexts(targ[f].pdf_path) :
          /\ o # "ok" => b = 0
          /\ LET img == NextImage(images[f], ocr_text_parts[f])
                 nxt == AfterTessPage(ocr_text_parts[f], Len(images[f]), o, b)
             IN Advance(f, nxt, images[f], nxt.parts,
                        CallRec("tesseract", "image", img, 0, o, b))
    /\ UNCHANGED << envVars, llmVars, libVars, STREAMING_SUPPORTED, mainVars >>

Next ==
    \/ ImportOcr
    \/ CheckFile
    \/ Submit
    \/ \E f \in Futures : Collect(f)
    \/ Reorder
    \/ Emit
    \/ \E f \in Futures : StartTask(f)
    \/ \E f \in Futures : OcrEnter(f)
    \/ \E f \in Futures : Rasterize(f)
    \/ \E f \in Futures : TessStdin(f)
    \/ \E f \in Futures : TessPage(f)

Spec == Init /\ [][Next]_vars

\* the steps of the main thread
MainStep ==
    \/ ImportOcr
    \/ CheckFile
    \/ Submit
    \/ \E f \in Futures : Collect(f)
    \/ Reorder
    \/ Emit

\* the steps of the run of future f inside a worker thread; each is one
\* blocking run_cmd call and what follows it
WorkerStep(f) ==
    /\ f \in Futures
    /\ \/ OcrEnter(f)
       \/ Rasterize(f)
       \/ TessStdin(f)
       \/ TessPage(f)

\* an idle worker thread takes the work item at the head of the queue
PoolStep(f) == f \in Futures /\ StartTask(f)

\* every step of the main thread changes mainPos, every step of a worker
\* changes taskPos
mainPos == << pc, chk, sub, yielded >>
taskPos == << tstate, tstep, calls >>

\* threads are scheduled: the main thread goes on when it can, an idle
\* worker takes queued work, and every external process terminates, so a
\* run_cmd call that was started returns or raises
Fairness ==
    /\ WF_mainPos(MainStep)
    /\ \A f \in 1..MaxDocs : WF_taskPos(PoolStep(f)) /\ WF_taskPos(WorkerStep(f))

SpecLive == Init /\ [][Next]_vars /\ Fairness

(***************************************************************************)
(* cli.main with ocr_pdf patched by a stub that may raise SystemExit, as   *)
(* tests/test_cli_error_handling.py does.                                  *)
(***************************************************************************)
\* the patched ocr_pdf raises instead of running the pipeline:
\* Exception("Test OCR exception") or SystemExit(2)
MockRaise(f) ==
    /\ tstate[f] = "running"
    /\ tstep[f] = "enter"
    /\ \E e \in { Exc("Exception", "Test OCR exception"), Exc("SystemExit", "2") } :
          tresult' = [tresult EXCEPT ![f] = e]
    /\ tstep' = [tstep EXCEPT ![f] = "done"]
    /\ tstate' = [tstate EXCEPT ![f] = "done"]
    /\ UNCHANGED << envVars, llmVars, libVars, STREAMING_SUPPORTED, mainVars, images,
                    ocr_text_parts, calls, tmpdir, fs, probes, targ >>

\* executor.shutdown(wait=True) has joined the workers (queued work items
\* still run); a PipelineError reaches the outer handler of main, anything
\* else leaves main
Unwind ==
    /\ pc \in {"unwinding", "unwinding_pipeline_error"}
    /\ \A f \in Futures : tstate[f] = "done"
    /\ IF pc = "unwinding_pipeline_error"
       THEN /\ pc' = FatalExit(log_errors).pc
            /\ log_errors' = FatalExit(log_errors).log_errors
            /\ exit_status' = FatalExit(log_errors).exit_status
       ELSE /\ pc' = "propagated"
            /\ exit_status' = 2
            /\ UNCHANGED log_errors
    /\ UNCHANGED << envVars, llmVars, libVars, STREAMING_SUPPORTED, taskVars, chk, sub, yielded,
                    completed, results, printed >>

NextMock ==
    \/ Next
    \/ \E f \in Futures : MockRaise(f)
    \/ Unwind

SpecMock == Init /\ [][NextMock]_vars

(***************************************************************************)
(* ocr_pdf called directly (as process_pdf and tests/test_ocr.py do) on    *)
(* one document, outside cli.main.                                         *)
(***************************************************************************)
InitOcr ==
    /\ binaries \in SUBSET {"pdftoppm", "tesseract"}
    /\ pdfs \in [1..1 -> OcrDocs]
    /\ max_workers = 1
    /\ existing = { pdfs[1] }
    /\ STREAMING_SUPPORTED = "False"
    /\ pc = "library"
    /\ chk = 1
    /\ sub = 0
    /\ tstate = [f \in Futures |-> "running"]
    /\ tstep = [f \in Futures |-> "enter"]
    /\ images = [f \in Futures |-> << >>]
    /\ ocr_text_parts = [f \in Futures |-> << >>]
    /\ calls = [f \in Futures |-> << >>]
    /\ tmpdir = [f \in Futures |-> 0]
    \* ocr_pdf(pdf_path) with the defaults dpi=300, lang="eng"
    /\ targ = [f \in Futures |-> CallArg(pdfs[f], "300", "eng")]
    /\ fs = {}
    /\ probes = << >>
    /\ tresult = [f \in Futures |-> NoResult]
    /\ yielded = {}
    /\ completed = << >>
    /\ results = << >>
    /\ printed = << >>
    /\ log_errors = 0
    /\ exit_status = -1
    /\ analyze = FALSE
    /\ ret = NoResult
    /\ documents = << >>
    /\ llm_calls = << >>
    /\ log_warnings = 0
    /\ OPENAI_API_KEY = "key"
    /\ llm_client = 0
    /\ client_lock = 0
    /\ instances = 0
    /\ tclient = [f \in Futures |-> 0]

NextOcr ==
    \/ \E f \in Futures : OcrEnter(f)
    \/ \E f \in Futures : Rasterize(f)
    \/ \E f \in Futures : TessStdin(f)
    \/ \E f \in Futures : TessPage(f)

SpecOcr == InitOcr /\ [][NextOcr]_vars

(***************************************************************************)
(* run_cmd called directly (as tests/test_ocr.py does) with a command, a   *)
(* set of accepted exit codes and capture_output on or off.                *)
(***************************************************************************)
InitRunCmd ==
    /\ binaries \in SUBSET {"pdftoppm", "tesseract"}
    /\ pdfs \in [1..1 -> Paths]
    /\ max_workers = 1
    /\ existing = { pdfs[1] }
    /\ STREAMING_SUPPORTED = "False"
    /\ pc = "library"
    /\ chk = 1
    /\ sub = 0
    /\ tstate = [f \in Futures |-> "running"]
    /\ tstep = [f \in Futures |-> "run_cmd"]
    /\ images = [f \in Futures |-> << >>]
    /\ ocr_text_parts = [f \in Futures |-> << >>]
    /\ calls = [f \in Futures |-> << >>]
    /\ tmpdir = [f \in Futures |-> 0]
    /\ targ = [f \in Futures |-> NoArg]
    /\ fs = {}
    /\ probes = << >>
    /\ tresult = [f \in Futures |-> NoResult]
    /\ yielded = {}
    /\ completed = << >>
    /\ results = << >>
    /\ printed = << >>
    /\ log_errors = 0
    /\ exit_status = -1
    /\ analyze = FALSE
    /\ ret = NoResult
    /\ documents = << >>
    /\ llm_calls = << >>
    /\ log_warnings = 0
    /\ OPENAI_API_KEY = "key"
    /\ llm_client = 0
    /\ client_lock = 0
    /\ instances = 0
    /\ tclient = [f \in Futures |-> 0]

\* run_cmd(cmd, ok_exit_codes=..., capture_output=...): the process, when
\* the executable is found, ends with returncode and has written out and
\* err to its stdout and stderr
RunCmdCall(f) ==
    /\ tstate[f] = "running"
    /\ tstep[f] = "run_cmd"
    /\ \E bin \in {"pdftoppm", "tesseract"}, ok_exit_codes \in SUBSET ExitCodes,
          capture_output \in BOOLEAN, returncode \in ExitCodes,
          out \in 0..1, err \in 0..1 :
          LET res == RunCmdResult(bin, binaries, returncode, out, err,
                                  ok_exit_codes, capture_output)
          IN /\ bin \notin binaries => returncode = 0 /\ out = 0 /\ err = 0
             /\ calls' = [calls EXCEPT ![f] = Append(@,
                    [tool |-> bin, ok_exit_codes |-> ok_exit_codes,
                     capture_output |-> capture_output,
                     returncode |-> returncode, stdout |-> out, stderr |-> err,
                     res |-> res, logged |-> RunCmdErrors(res.kind)])]
             /\ tresult' = [tresult EXCEPT ![f] =
                    IF res.kind = "returned"
                    THEN Ok(res) ELSE Exc(res.kind, res)]
    /\ tstep' = [tstep EXCEPT ![f] = "done"]
    /\ tstate' = [tstate EXCEPT ![f] = "done"]
    /\ UNCHANGED << envVars, llmVars, libVars, STREAMING_SUPPORTED, mainVars, images,
                    ocr_text_parts, tmpdir, fs, probes, targ >>

NextRunCmd == \E f \in Futures : RunCmdCall(f)

SpecRunCmd == InitRunCmd /\ [][NextRunCmd]_vars

(***************************************************************************)
(* llm_client.send, as segment_pdf calls it: _get_client may raise, an     *)
(* exception of the API call is re-raised by "except BaseException", the   *)
(* other failures are returned as a dict with an "error" key.              *)
(***************************************************************************)
SendOutcomes ==
    {"no_api_key", "api_raises", "no_choices", "empty_content",
     "invalid_json", "not_an_object", "json_object"}

LlmSend(o) ==
    CASE o = "no_api_key" -> Exc("MissingApiKeyError", "OPENAI_API_KEY")
      [] o = "api_raises" -> Exc("Exception", "timeout")
      [] o = "no_choices" -> Ok([error |-> "Malformed response from LLM"])
      [] o = "empty_content" -> Ok([error |-> "Empty response from LLM"])
      [] o = "invalid_json" -> Ok([error |-> "Invalid JSON in LLM response"])
      [] o = "not_an_object" -> Ok([error |-> "Invalid response schema"])
      [] OTHER -> Ok([documents |-> "segments"])

\* segment_pdf(text, prompt, model=model): one llm_send call, whose result
\* is returned
segment_pdf(text, prompt, model, o) ==
    [text |-> text, prompt |-> prompt, model |-> model, res |-> LlmSend(o)]

(***************************************************************************)
(* process_pdf(path, settings): OCR and optional segmentation of one file. *)
(***************************************************************************)
\* faulty variant: sends the text to the segmentation step in any case
AfterOcrAlwaysSegment(pdf_path, res, opts_analyze) ==
    IF res.type # "ok"
    THEN [pc |-> "raised", ret |-> res]
    ELSE [pc |-> "segment", ret |-> NoResult]

\* what follows the ocr_pdf call: an exception passes through, without
\* opts.analyze the OcrResult is returned
AfterOcr(pdf_path, res, opts_analyze) ==
    IF res.type # "ok"
    THEN [pc |-> "raised", ret |-> res]
    ELSE IF ~opts_analyze
    THEN [pc |-> "returned",
          ret |-> Ok([file |-> Name(pdf_path), ocr_text |-> res.val])]
    ELSE [pc |-> "segment", ret |-> NoResult]

InitProcessPdf ==
    /\ binaries \in SUBSET {"pdftoppm", "tesseract"}
    /\ pdfs \in [1..1 -> Paths]
    /\ max_workers = 1
    /\ existing \in SUBSET { pdfs[1] }
    /\ STREAMING_SUPPORTED = "False"
    /\ pc = "process_pdf"
    /\ chk = 1
    /\ sub = 0
    /\ tstate = [f \in Futures |-> "new"]
    /\ tstep = [f \in Futures |-> "idle"]
    /\ images = [f \in Futures |-> << >>]
    /\ ocr_text_parts = [f \in Futures |-> << >>]
    /\ calls = [f \in Futures |-> << >>]
    /\ tmpdir = [f \in Futures |-> 0]
    /\ targ = [f \in Futures |-> NoArg]
    /\ fs = {}
    /\ probes = << >>
    /\ tresult = [f \in Futures |-> NoResult]
    /\ yielded = {}
    /\ completed = << >>
    /\ results = << >>
    /\ printed = << >>
    /\ log_errors = 0
    /\ exit_status = -1
    /\ analyze \in BOOLEAN
    /\ ret = NoResult
    /\ documents = << >>
    /\ llm_calls = << >>
    /\ log_warnings = 0
    /\ OPENAI_API_KEY = "key"
    /\ llm_client = 0
    /\ client_lock = 0
    /\ instances = 0
    /\ tclient = [f \in Futures |-> 0]

\* the is_file() test, then the call ocr_pdf(pdf_path, dpi=..., lang=...)
ProcessPdfEnter ==
    /\ pc = "process_pdf"
    /\ IF pdfs[1] \notin existing
       THEN /\ pc' = "raised"
            /\ ret' = Exc("FileNotFoundError", pdfs[1])
            /\ UNCHANGED << tstate, tstep, targ >>
       ELSE /\ pc' = "ocr_pdf"
            /\ tstate' = [tstate EXCEPT ![1] = "running"]
            /\ tstep' = [tstep EXCEPT ![1] = "enter"]
            /\ targ' = [targ EXCEPT ![1] =
                            CallArg(pdfs[1], "_settings.dpi", "_settings.lang")]
            /\ UNCHANGED ret
    /\ UNCHANGED << envVars, llmVars, STREAMING_SUPPORTED, chk, sub, yielded, completed,
                    results, printed, log_errors, exit_status, images,
                    ocr_text_parts, calls, tmpdir, fs, probes, tresult,
                    analyze, documents, llm_calls, log_warnings >>

\* ocr_pdf has returned or raised
ProcessPdfAfterOcr ==
    /\ pc = "ocr_pdf"
    /\ tstate[1] = "done"
    /\ LET nxt == AfterOcr(pdfs[1], tresult[1], analyze) IN
       /\ pc' = nxt.pc
       /\ ret' = nxt.ret
    /\ UNCHANGED << envVars, llmVars, STREAMING_SUPPORTED, chk, sub, yielded, completed,
                    results, printed, log_errors, exit_status, taskVars,
                    analyze, documents, llm_calls, log_warnings >>

\* seg_json = segment_pdf(ocr_text, None, model="gpt-4o"); return seg_json
ProcessPdfSegment ==
    /\ pc = "segment"
    /\ \E o \in SendOutcomes :
          LET call == segment_pdf(tresult[1].val, "None", "gpt-4o", o) IN
          /\ llm_calls' = Append(llm_calls, call)
          /\ ret' = call.res
          /\ pc' = IF call.res.type = "ok" THEN "returned" ELSE "raised"
    /\ UNCHANGED << envVars, llmVars, STREAMING_SUPPORTED, chk, sub, yielded, completed,
                    results, printed, log_errors, exit_status, taskVars,
                    analyze, documents, log_warnings >>

NextProcessPdf ==
    \/ ProcessPdfEnter
    \/ NextOcr
    \/ ProcessPdfAfterOcr
    \/ ProcessPdfSegment

SpecProcessPdf == InitProcessPdf /\ [][NextProcessPdf]_vars

(***************************************************************************)
(* summarize.process_with_gpt(client, text, prompt): one chat completion   *)
(* request. A message f"{head}{detail}" is the pair << head, detail >>.    *)
(***************************************************************************)
\* what client.chat.completions.create does: it raises an Exception with a
\* text, or returns a response without choices, with a message that has no
\* content attribute, with empty content, with content that is no JSON, or
\* with a JSON object
GptOutcomes ==
    { [kind |-> "raises", msg |-> m] :
          m \in {"Request timed out", "Rate limit exceeded"} }
    \cup { [kind |-> k, msg |-> ""] :
          k \in {"no_choices", "no_content_attr", "empty_content",
                 "invalid_json", "json_object"} }

\* faulty variant: an exception of the API call leaves the function
process_with_gptReraise(o) ==
    CASE o.kind = "raises" ->
            [raised |-> TRUE, ret |-> [error |-> << o.msg >>], errors |-> 0]
      [] o.kind = "no_choices" ->
            [raised |-> TRUE, ret |-> [error |-> << "list index out of range" >>],
             errors |-> 0]
      [] o.kind = "no_content_attr" ->
            [raised |-> FALSE, errors |-> 1,
             ret |-> [error |-> << "Failed to parse response: ", "AttributeError" >>]]
      [] o.kind = "empty_content" ->
            [raised |-> FALSE, errors |-> 0,
             ret |-> [error |-> << "Empty response from GPT-4o" >>]]
      [] o.kind = "invalid_json" ->
            [raised |-> FALSE, errors |-> 1,
             ret |-> [error |-> << "Failed to parse response: ", "JSONDecodeError" >>]]
      [] OTHER ->
            [raised |-> FALSE, errors |-> 0, ret |-> [summary |-> "json"]]

\* raised: whether an exception leaves the function; ret: the dict that is
\* returned; errors: the number of logger.error calls
process_with_gpt(o) ==
    CASE o.kind = "raises" ->
            [raised |-> FALSE, errors |-> 1,
             ret |-> [error |-> << "API error: ", o.msg >>]]
      \* response.choices[0] raises IndexError, which the outer handler takes
      [] o.kind = "no_choices" ->
            [raised |-> FALSE, errors |-> 1,
             ret |-> [error |-> << "API error: ", "list index out of range" >>]]
      [] o.kind = "no_content_attr" ->
            [raised |-> FALSE, errors |-> 1,
             ret |-> [error |-> << "Failed to parse response: ", "AttributeError" >>]]
      [] o.kind = "empty_content" ->
            [raised |-> FALSE, errors |-> 0,
             ret |-> [error |-> << "Empty response from GPT-4o" >>]]
      [] o.kind = "invalid_json" ->
            [raised |-> FALSE, errors |-> 1,
             ret |-> [error |-> << "Failed to parse response: ", "JSONDecodeError" >>]]
      [] OTHER ->
            [raised |-> FALSE, errors |-> 0, ret |-> [summary |-> "json"]]

(***************************************************************************)
(* summarize.main: client, read_input, one request per document, print.    *)
(***************************************************************************)
\* elements of a JSON list on stdin: records as cli.main prints them, with
\* text, with empty text, with an error instead of text, and one without
\* the file key
DocInputs ==
    { [file |-> "a.pdf", ocr_text |-> "deed"],
      [file |-> "b.pdf", ocr_text |-> ""],
      [file |-> "c.pdf", error |-> "pdftoppm failed"],
      [ocr_text |-> "lien"] }

DocLists == UNION { [1..n -> DocInputs] : n \in 0..MaxDocs }

\* stdin that is no JSON list: stripped raw text, or json.dumps of the value
RawTexts == {"", "words", "{}"}

\* read_input for a JSON list
ReadInputList(data) == data

\* read_input for anything else: one document named "unknown"
ReadInputText(input_data) == << [file |-> "unknown", ocr_text |-> input_data] >>

\* doc.get(key, default)
DocGet(doc, key, default) == IF key \in DOMAIN doc THEN doc[key] ELSE default

\* faulty variant: no document is skipped
SkipsNever(ocr_text) == FALSE

\* "if not ocr_text"
Skips(ocr_text) == ocr_text = ""

\* the environment's OPENAI_API_KEY as setup_openai_client sees it
ApiKeys == {"unset", "placeholder", "key"}

InitSummarize ==
    /\ binaries = {}
    /\ pdfs = << >>
    /\ max_workers = 1
    /\ existing = {}
    /\ STREAMING_SUPPORTED = "False"
    /\ pc = "setup_openai_client"
    /\ chk = 1
    /\ sub = 0
    /\ tstate = [f \in Futures |-> "new"]
    /\ tstep = [f \in Futures |-> "idle"]
    /\ images = [f \in Futures |-> << >>]
    /\ ocr_text_parts = [f \in Futures |-> << >>]
    /\ calls = [f \in Futures |-> << >>]
    /\ tmpdir = [f \in Futures |-> 0]
    /\ targ = [f \in Futures |-> NoArg]
    /\ fs = {}
    /\ probes = << >>
    /\ tresult = [f \in Futures |-> NoResult]
    /\ yielded = {}
    /\ completed = << >>
    /\ results = << >>
    /\ printed = << >>
    /\ log_errors = 0
    /\ exit_status = -1
    /\ analyze = FALSE
    /\ ret = NoResult
    /\ documents = << >>
    /\ llm_calls = << >>
    /\ log_warnings = 0
    /\ OPENAI_API_KEY = "key"
    /\ llm_client = 0
    /\ client_lock = 0
    /\ instances = 0
    /\ tclient = [f \in Futures |-> 0]

\* client = setup_openai_client(): ValueError without a usable key, which
\* main logs before sys.exit(1)
SummarizeSetup ==
    /\ pc = "setup_openai_client"
    /\ \E api_key \in ApiKeys :
          IF api_key = "key"
          THEN /\ pc' = "read_input"
               /\ UNCHANGED << log_errors, exit_status >>
          ELSE /\ pc' = "exit"
               /\ log_errors' = log_errors + 1
               /\ exit_status' = 1
    /\ UNCHANGED << envVars, llmVars, libVars, STREAMING_SUPPORTED, chk, sub, yielded,
                    completed, results, printed, taskVars >>

\* documents = read_input()
SummarizeRead ==
    /\ pc = "read_input"
    /\ \/ \E data \in DocLists : documents' = ReadInputList(data)
       \/ \E input_data \in RawTexts : documents' = ReadInputText(input_data)
    /\ pc' = "for_doc"
    /\ UNCHANGED << envVars, llmVars, analyze, ret, llm_calls, log_warnings,
                    STREAMING_SUPPORTED, chk, sub, yielded, completed, results,
                    printed, log_errors, exit_status, taskVars >>

\* one pass of "for doc in documents"; sub counts the documents taken
SummarizeDoc ==
    /\ pc = "for_doc"
    /\ sub < Len(documents)
    /\ LET doc == documents[sub + 1]
           file_name == DocGet(doc, "file", "unknown")
           ocr_text == DocGet(doc, "ocr_text", "")
       IN IF Skips(ocr_text)
          THEN /\ log_warnings' = log_warnings + 1
               /\ sub' = sub + 1
               /\ UNCHANGED << pc, llm_calls, results, log_errors, exit_status >>
          ELSE \E o \in GptOutcomes :
                  LET analysis == process_with_gpt(o) IN
                  /\ llm_calls' = Append(llm_calls,
                        [text |-> ocr_text, o |-> o, raised |-> analysis.raised,
                         res |-> analysis.ret, logged |-> analysis.errors])
                  /\ IF analysis.raised
                     \* "except Exception" of main
                     THEN /\ pc' = "exit"
                          /\ log_errors' = log_errors + analysis.errors + 1
                          /\ exit_status' = 1
                          /\ UNCHANGED << sub, results >>
                     ELSE /\ results' = Append(results,
                                [file |-> file_name, analysis |-> analysis.ret])
                          /\ log_errors' = log_errors + analysis.errors
                          /\ sub' = sub + 1
                          /\ UNCHANGED << pc, exit_status >>
                  /\ UNCHANGED log_warnings
    /\ UNCHANGED << envVars, llmVars, analyze, ret, documents, STREAMING_SUPPORTED, chk,
                    yielded, completed, printed, taskVars >>

\* print(json.dumps(results, ...)) after the loop
SummarizeEmit ==
    /\ pc = "for_doc"
    /\ sub = Len(documents)
    /\ printed' = Append(printed, results)
    /\ pc' = "done"
    /\ exit_status' = 0
    /\ UNCHANGED << envVars, llmVars, libVars, STREAMING_SUPPORTED, chk, sub, yielded,
                    completed, results, log_errors, taskVars >>

NextSummarize ==
    \/ SummarizeSetup
    \/ SummarizeRead
    \/ SummarizeDoc
    \/ SummarizeEmit

SpecSummarize == InitSummarize /\ [][NextSummarize]_vars

(***************************************************************************)
(* llm_client.send(messages) called without a client from several threads  *)
(* at once, one call per element of pdfs: _get_client, then the request.   *)
(***************************************************************************)
InitLlm ==
    /\ binaries = {}
    /\ pdfs \in ArgLists
    /\ max_workers = MaxWorkers
    /\ existing = {}
    /\ STREAMING_SUPPORTED = "False"
    /\ pc = "library"
    /\ chk = 1
    /\ sub = 0
    /\ tstate = [f \in Futures |-> "running"]
    /\ tstep = [f \in Futures |-> "get_client"]
    /\ images = [f \in Futures |-> << >>]
    /\ ocr_text_parts = [f \in Futures |-> << >>]
    /\ calls = [f \in Futures |-> << >>]
    /\ tmpdir = [f \in Futures |-> 0]
    /\ targ = [f \in Futures |-> NoArg]
    /\ fs = {}
    /\ probes = << >>
    /\ tresult = [f \in Futures |-> NoResult]
    /\ yielded = {}
    /\ completed = << >>
    /\ results = << >>
    /\ printed = << >>
    /\ log_errors = 0
    /\ exit_status = -1
    /\ analyze = FALSE
    /\ ret = NoResult
    /\ documents = << >>
    /\ llm_calls = << >>
    /\ OPENAI_API_KEY \in ApiKeys
    /\ llm_client = 0
    /\ client_lock = 0
    /\ instances = 0
    /\ tclient = [f \in Futures |-> 0]
    /\ log_warnings = 0

\* _get_client, "if _client is not None: return _client"
GetClientFast(f) ==
    /\ tstate[f] = "running"
    /\ tstep[f] = "get_client"
    /\ IF llm_client # 0
       THEN /\ tclient' = [tclient EXCEPT ![f] = llm_client]
            /\ tstep' = [tstep EXCEPT ![f] = "create"]
       ELSE /\ tstep' = [tstep EXCEPT ![f] = "acquire"]
            /\ UNCHANGED tclient
    /\ UNCHANGED << envVars, libVars, STREAMING_SUPPORTED, mainVars, tstate,
                    images, ocr_text_parts, calls, tmpdir, fs, probes, targ,
                    tresult, OPENAI_API_KEY, llm_client, client_lock, instances >>

\* "with _client_lock:" blocks until the lock is free
AcquireClientLock(f) ==
    /\ tstate[f] = "running"
    /\ tstep[f] = "acquire"
    /\ client_lock = 0
    /\ client_lock' = f
    /\ tstep' = [tstep EXCEPT ![f] = "locked"]
    /\ UNCHANGED << envVars, libVars, STREAMING_SUPPORTED, mainVars, tstate,
                    images, ocr_text_parts, calls, tmpdir, fs, probes, targ,
                    tresult, OPENAI_API_KEY, llm_client, instances, tclient >>

\* inside the lock: MissingApiKeyError without a usable key, else
\* client = OpenAI(api_key=api_key); leaving the with-block frees the lock
ConstructClient(f) ==
    /\ tstate[f] = "running"
    /\ tstep[f] = "locked"
    /\ client_lock' = 0
    /\ IF OPENAI_API_KEY # "key"
       THEN /\ tresult' = [tresult EXCEPT ![f] = LlmSend("no_api_key")]
            /\ tstep' = [tstep EXCEPT ![f] = "done"]
            /\ tstate' = [tstate EXCEPT ![f] = "done"]
            /\ UNCHANGED << instances, tclient >>
       ELSE /\ instances' = instances + 1
            /\ tclient' = [tclient EXCEPT ![f] = instances + 1]
            /\ tstep' = [tstep EXCEPT ![f] = "cache"]
            /\ UNCHANGED << tstate, tresult >>
    /\ UNCHANGED << envVars, libVars, STREAMING_SUPPORTED, mainVars, images,
                    ocr_text_parts, calls, tmpdir, fs, probes, targ,
                    OPENAI_API_KEY, llm_client >>

\* after the with-block: "_client = client; return client"
CacheClient(f) ==
    /\ tstate[f] = "running"
    /\ tstep[f] = "cache"
    /\ llm_client' = tclient[f]
    /\ tstep' = [tstep EXCEPT ![f] = "create"]
    /\ UNCHANGED << envVars, libVars, STREAMING_SUPPORTED, mainVars, tstate,
                    images, ocr_text_parts, calls, tmpdir, fs, probes, targ,
                    tresult, OPENAI_API_KEY, client_lock, instances, tclient >>

\* cli.chat.completions.create(...) and the rest of send
CreateCompletion(f) ==
    /\ tstate[f] = "running"
    /\ tstep[f] = "create"
    /\ \E o \in SendOutcomes \ {"no_api_key"} :
          /\ llm_calls' = Append(llm_calls,
                [by |-> f, client |-> tclient[f], o |-> o, res |-> LlmSend(o)])
          /\ tresult' = [tresult EXCEPT ![f] = LlmSend(o)]
    /\ tstep' = [tstep EXCEPT ![f] = "done"]
    /\ tstate' = [tstate EXCEPT ![f] = "done"]
    /\ UNCHANGED << envVars, llmVars, analyze, ret, documents, log_warnings,
                    STREAMING_SUPPORTED, mainVars, images, ocr_text_parts,
                    calls, tmpdir, fs, probes, targ >>

NextLlm ==
    \/ \E f \in Futures : GetClientFast(f)
    \/ \E f \in Futures : AcquireClientLock(f)
    \/ \E f \in Futures : ConstructClient(f)
    \/ \E f \in Futures : CacheClient(f)
    \/ \E f \in Futures : CreateCompletion(f)

SpecLlm == InitLlm /\ [][NextLlm]_vars

(***************************************************************************)
(* cli.main in a process whose capability flag is not pinned: the flag is  *)
(* None (the probe decides on first use) or True when the batch starts.    *)
(* These are the values the branches of ocr_pdf at "is None" and at "if    *)
(* _STREAMING_SUPPORTED" exist for; the shipped module assigns False.      *)
(***************************************************************************)
InitCap ==
    /\ binaries \in SUBSET {"pdftoppm", "tesseract"}
    /\ pdfs \in ArgLists
    /\ max_workers \in PoolSizes
    /\ existing = { pdfs[i] : i \in 1..Len(pdfs) }
    /\ STREAMING_SUPPORTED \in {"None", "True"}
    /\ pc = "import"
    /\ chk = 1
    /\ sub = 0
    /\ tstate = [f \in Futures |-> "new"]
    /\ tstep = [f \in Futures |-> "idle"]
    /\ images = [f \in Futures |-> << >>]
    /\ ocr_text_parts = [f \in Futures |-> << >>]
    /\ calls = [f \in Futures |-> << >>]
    /\ tmpdir = [f \in Futures |-> 0]
    /\ targ = [f \in Futures |-> NoArg]
    /\ fs = {}
    /\ probes = << >>
    /\ tresult = [f \in Futures |-> NoResult]
    /\ yielded = {}
    /\ completed = << >>
    /\ results = << >>
    /\ printed = << >>
    /\ log_errors = 0
    /\ exit_status = -1
    /\ analyze = FALSE
    /\ ret = NoResult
    /\ documents = << >>
    /\ llm_calls = << >>
    /\ log_warnings = 0
    /\ OPENAI_API_KEY = "key"
    /\ llm_client = 0
    /\ client_lock = 0
    /\ instances = 0
    /\ tclient = [f \in Futures |-> 0]

\* _STREAMING_SUPPORTED = _detect_streaming_support(): the call and the
\* assignment of what it returned; an exception that leaves the probe
\* leaves ocr_pdf too
Probe(f) ==
    /\ tstate[f] = "running"
    /\ tstep[f] = "probe"
    /\ \E o \in ProbeOutcomes(binaries) :
       LET r == DetectStreamingSupport(o) IN
       /\ probes' = Append(probes, [by |-> f, rc |-> o, ret |-> r.ret])
       /\ IF r.raised
          THEN /\ tstep' = [tstep EXCEPT ![f] = "done"]
               /\ tstate' = [tstate EXCEPT ![f] = "done"]
               /\ tresult' = [tresult EXCEPT ![f] = Exc("OSError", "pdftoppm")]
               /\ UNCHANGED STREAMING_SUPPORTED
          ELSE /\ STREAMING_SUPPORTED' = r.ret
               /\ tstep' = [tstep EXCEPT ![f] = "select"]
               /\ UNCHANGED << tstate, tresult >>
    /\ UNCHANGED << envVars, llmVars, libVars, mainVars, images, ocr_text_parts, calls, tmpdir,
                    fs, targ >>

\* after the probe: "if _STREAMING_SUPPORTED:" reads the flag again
SelectStrategy(f) ==
    /\ tstate[f] = "running"
    /\ tstep[f] = "select"
    /\ tstep' = [tstep EXCEPT ![f] = SelectStep(STREAMING_SUPPORTED)]
    /\ IF SelectStep(STREAMING_SUPPORTED) = "rasterize"
       THEN EnterTmp(f)
       ELSE UNCHANGED << tmpdir, fs >>
    /\ UNCHANGED << envVars, llmVars, libVars, STREAMING_SUPPORTED, mainVars, tstate, images,
                    ocr_text_parts, calls, probes, tresult, targ >>

\* fast path: run_cmd(["pdftoppm", "-r", dpi, pdf_path, "-"]); without
\* stdout the flag is set to False and the with-block is entered
Stream(f) ==
    /\ tstate[f] = "running"
    /\ tstep[f] = "stream"
    /\ \E o \in RunCmdOutcomes("pdftoppm", binaries) :
       \E out \in BOOLEAN :
          LET nxt == AfterStream(o, out, STREAMING_SUPPORTED) IN
          /\ o # "ok" => ~out
          /\ STREAMING_SUPPORTED' = nxt.flag
          /\ tstep' = [tstep EXCEPT ![f] = nxt.step]
          /\ tstate' = [tstate EXCEPT ![f] =
                            IF nxt.step = "done" THEN "done" ELSE @]
          /\ tresult' = [tresult EXCEPT ![f] = nxt.res]
          /\ calls' = [calls EXCEPT ![f] =
                  Append(@, CallRec("pdftoppm", "stdout", 0, Bytes(out), o, 0))]
          /\ IF nxt.step = "rasterize"
             THEN EnterTmp(f)
             ELSE UNCHANGED << tmpdir, fs >>
    /\ UNCHANGED << envVars, llmVars, libVars, mainVars, images, ocr_text_parts, probes, targ >>

\* fast path: run_cmd(["tesseract", ..., "-", "stdout"], input=stdout)
StreamTess(f) ==
    /\ tstate[f] = "running"
    /\ tstep[f] = "stream_tess"
    /\ \E o \in RunCmdOutcomes("tesseract", binaries) :
       \E b \in DocTexts(targ[f].pdf_path) :
          /\ o # "ok" => b = 0
          /\ Advance(f, AfterStreamTess(o, b), << >>, << >>,
                     CallRec("tesseract", "stdin", 0, LastStdout(f), o, b))
    /\ UNCHANGED << envVars, llmVars, libVars, STREAMING_SUPPORTED, mainVars >>

NextCap ==
    \/ Next
    \/ \E f \in Futures : Probe(f)
    \/ \E f \in Futures : SelectStrategy(f)
    \/ \E f \in Futures : Stream(f)
    \/ \E f \in Futures : StreamTess(f)

SpecCap == InitCap /\ [][NextCap]_vars

(***************************************************************************)
(* ocr_pdf called directly on one document in a process whose flag is      *)
(* None, True or False: both strategies and the probe, without the batch.  *)
(***************************************************************************)
InitOcrCap ==
    /\ binaries \in SUBSET {"pdftoppm", "tesseract"}
    /\ pdfs \in [1..1 -> OcrDocs]
    /\ max_workers = 1
    /\ existing = { pdfs[1] }
    /\ STREAMING_SUPPORTED \in {"None", "True", "False"}
    /\ pc = "library"
    /\ chk = 1
    /\ sub = 0
    /\ tstate = [f \in Futures |-> "running"]
    /\ tstep = [f \in Futures |-> "enter"]
    /\ images = [f \in Futures |-> << >>]
    /\ ocr_text_parts = [f \in Futures |-> << >>]
    /\ calls = [f \in Futures |-> << >>]
    /\ tmpdir = [f \in Futures |-> 0]
    /\ targ = [f \in Futures |-> CallArg(pdfs[f], "300", "eng")]
    /\ fs = {}
    /\ probes = << >>
    /\ tresult = [f \in Futures |-> NoResult]
    /\ yielded = {}
    /\ completed = << >>
    /\ results = << >>
    /\ printed = << >>
    /\ log_errors = 0
    /\ exit_status = -1
    /\ analyze = FALSE
    /\ ret = NoResult
    /\ documents = << >>
    /\ llm_calls = << >>
    /\ log_warnings = 0
    /\ OPENAI_API_KEY = "key"
    /\ llm_client = 0
    /\ client_lock = 0
    /\ instances = 0
    /\ tclient = [f \in Futures |-> 0]

NextOcrCap ==
    \/ NextOcr
    \/ \E f \in Futures : Probe(f)
    \/ \E f \in Futures : SelectStrategy(f)
    \/ \E f \in Futures : Stream(f)
    \/ \E f \in Futures : StreamTess(f)

SpecOcrCap == InitOcrCap /\ [][NextOcrCap]_vars

(***************************************************************************)
(* Properties.                                                             *)
(***************************************************************************)
Terminal == {"done", "fatal", "import_error", "crashed", "propagated"}

Missing == { i \in 1..Len(REQUIRED_BINARIES) : REQUIRED_BINARIES[i] \notin binaries }

NoTaskStarted == \A f \in Futures : tstate[f] = "new" /\ calls[f] = << >>

SuccessShape(r) == DOMAIN r = {"file", "ocr_text"}
ErrorShape(r) == DOMAIN r = {"file", "error"}

\* C1: every batch handed to print has one record per submitted path, and
\* the file of the i-th record is the name of the i-th submitted path,
\* whatever the order in which the futures completed.
C1_OrderPreserved ==
    \A j \in 1..Len(printed) :
        /\ Len(printed[j]) = Len(pdfs)
        /\ \A i \in 1..Len(pdfs) : printed[j][i].file = Name(pdfs[i])

\* two different documents, the second one completed (and was stored) first
C1_Witness ==
    /\ pc = "done"
    /\ Len(printed) = 1
    /\ Len(pdfs) = 2
    /\ Name(pdfs[1]) # Name(pdfs[2])
    /\ Len(completed) = 2
    /\ completed[1][1] = pdfs[2]

\* C2: in the emitted batch, the record at position f is the error record of
\* the f-th pipeline run when that run raised, and the success record with
\* that run's own text when it returned; a raising run never makes the
\* batch call end other than by emitting the batch.
C2_FailureIsolated ==
    /\ pc = "done" =>
         \A f \in Futures :
            LET r == printed[1][f] IN
            /\ r.file = Name(pdfs[f])
            /\ tresult[f].type # "ok" => ErrorShape(r)
            /\ tresult[f].type = "ok" =>
                  SuccessShape(r) /\ r.ocr_text = tresult[f].val
    /\ (pc \in Terminal /\ \E f \in Futures : tresult[f].type \in ExceptionTypes)
          => pc = "done"

\* C3: a run that has ended has either printed one batch with one record per
\* requested path, each of the success shape or of the error shape, and
\* exited with status 0, or it has printed nothing and exited with status 1;
\* never more than one batch is printed.
C3_ExactlyOneOutcome ==
    /\ Len(printed) <= 1
    /\ pc \in Terminal =>
         \/ /\ pc = "done"
            /\ exit_status = 0
            /\ Len(printed) = 1
            /\ Len(printed[1]) = Len(pdfs)
            /\ \A i \in 1..Len(pdfs) :
                  /\ SuccessShape(printed[1][i]) \/ ErrorShape(printed[1][i])
                  /\ ~({"ocr_text", "error"} \subseteq DOMAIN printed[1][i])
         \/ /\ pc \in {"fatal", "import_error"}
            /\ exit_status = 1
            /\ printed = << >>

\* a batch holding a success record and an error record
C3_Witness ==
    /\ pc = "done"
    /\ Len(pdfs) = 2
    /\ SuccessShape(printed[1][1])
    /\ ErrorShape(printed[1][2])

C5_PrecheckBeforeScheduling ==
    (\E i \in 1..Len(pdfs) : pdfs[i] \notin existing) =>
        /\ sub = 0
        /\ NoTaskStarted
        /\ pc \in {"import", "import_error", "precheck", "fatal"}

\* the first path exists, the second does not, and main took the fatal exit
C5_Witness ==
    /\ pc = "fatal"
    /\ Len(pdfs) = 2
    /\ pdfs[1] \in existing
    /\ pdfs[2] \notin existing

C7_MissingExecutableFatal ==
    Missing # {} =>
        /\ \A f \in Futures : tstate[f] # "done"
        /\ completed = << >>
        /\ printed = << >>
        /\ pc \in Terminal => exit_status = 1

\* C8: a future whose result is SystemExit never yields a record: taking its
\* result makes main unwind, and the run ends with SystemExit leaving main
\* and nothing printed.
C8_SystemExitPropagates ==
    /\ \A f \in yielded :
          tresult[f].type = "SystemExit" => pc \in {"unwinding", "propagated"}
    /\ \A i \in 1..Len(completed) :
          ErrorShape(completed[i][2]) => completed[i][2].error # "2"
    /\ (pc \in Terminal /\ \E f \in Futures : tresult[f].type = "SystemExit") =>
          /\ pc = "propagated"
          /\ printed = << >>

\* SystemExit left main although the sibling document was recognized
C8_Witness ==
    /\ pc = "propagated"
    /\ Len(pdfs) = 2
    /\ tresult[1].type = "ok"
    /\ tresult[2].type = "SystemExit"

\* the successful tesseract call of a pipeline run on image file img
PageCall(f, img) ==
    CHOOSE c \in { calls[f][j] : j \in 1..Len(calls[f]) } :
        c.tool = "tesseract" /\ c.arg = img /\ c.rc = "ok"

\* C9: when pdftoppm wrote k >= 1 image files and ocr_pdf returned, the text
\* is k blocks joined by newlines; block i is the marker pair numbered i
\* around the text recognized from the i-th image file in filename order.
C9_PageBlocks ==
    \A f \in Futures :
        (tresult[f].type = "ok" /\ calls[f][1].out >= 1) =>
            LET k == calls[f][1].out
                t == tresult[f].val
            IN /\ Len(t) = 6 * k - 1
               /\ Cardinality({ j \in 1..Len(t) : t[j].k = "open" }) = k
               /\ \A i \in 1..k :
                     LET o == 6 * (i - 1) IN
                     /\ t[o + 1] = OpenTag(i)
                     /\ t[o + 2] = NL
                     /\ t[o + 3] = Txt(Decode(PageCall(f, i).out))
                     /\ t[o + 4] = NL
                     /\ t[o + 5] = CloseTag(i)
                     /\ i < k => t[o + 6] = NL

\* a three-page document was recognized, no two pages with the same text
C9_Witness ==
    \E f \in Futures :
        /\ tresult[f].type = "ok"
        /\ calls[f][1].out = 3
        /\ PageCall(f, 1).out # PageCall(f, 2).out
        /\ PageCall(f, 2).out # PageCall(f, 3).out
        /\ PageCall(f, 1).out # PageCall(f, 3).out

\* C10: a failed tesseract invocation is the last invocation of its pipeline
\* run, and that run has ended by raising: no text is returned.
C10_PageFailureFailsDocument ==
    \A f \in Futures : \A j \in 1..Len(calls[f]) :
        (calls[f][j].tool = "tesseract" /\ calls[f][j].rc # "ok") =>
            /\ j = Len(calls[f])
            /\ tstate[f] = "done"
            /\ tresult[f].type \in PipelineErrorTypes

\* tesseract failed on the second of three pages: the text of the first
\* page is not returned and the third image is never recognized
C10_Witness ==
    /\ calls[1] # << >>
    /\ calls[1][1].out = 3
    /\ Len(calls[1]) = 3
    /\ calls[1][2].rc = "ok"
    /\ calls[1][3].rc = "CalledProcessError"
    /\ tstate[1] = "done"

\* the pdftoppm call of the temporary-directory path of run f succeeded,
\* left k image files and wrote bytes to stdout (or did not)
FileRasterized(f, k, out) ==
    /\ calls[f] # << >>
    /\ calls[f][1].tool = "pdftoppm"
    /\ calls[f][1].mode = "prefix"
    /\ calls[f][1].rc = "ok"
    /\ calls[f][1].out = k
    /\ calls[f][1].pipe = Bytes(out)

\* C11: when the file-based pdftoppm call succeeded, no image file was found
\* and its stdout holds bytes, tesseract is invoked once, reading exactly
\* those bytes from stdin, and no other tool is invoked; when that call
\* returned, the result of the run is the single block numbered 1 around
\* the text it printed.
C11_StdoutFallbackPageOne ==
    \A f \in Futures :
        FileRasterized(f, 0, TRUE) =>
            /\ Len(calls[f]) <= 2
            /\ tstep[f] \in {"tess_stdin", "done"}
            /\ tstate[f] = "done" =>
                 /\ Len(calls[f]) = 2
                 /\ calls[f][2].tool = "tesseract"
                 /\ calls[f][2].mode = "stdin"
                 /\ calls[f][2].pipe = calls[f][1].pipe
                 /\ calls[f][2].rc = "ok" =>
                      tresult[f] = Ok(<< OpenTag(1), NL,
                                         Txt(Decode(calls[f][2].out)), NL,
                                         CloseTag(1) >>)
                 /\ calls[f][2].rc # "ok" =>
                      tresult[f].type \in PipelineErrorTypes

\* no image file, bytes on stdout, and tesseract read a non-empty text
C11_Witness ==
    /\ FileRasterized(1, 0, TRUE)
    /\ tstate[1] = "done"
    /\ tresult[1].type = "ok"
    /\ calls[1][2].out # 0

\* C12: when the file-based pdftoppm call succeeded, no image file was found
\* and its stdout is empty, the run has ended with OcrError "No images
\* produced by pdftoppm" and tesseract was not invoked.
C12_NoOutputFails ==
    \A f \in Futures :
        FileRasterized(f, 0, FALSE) =>
            /\ tstate[f] = "done"
            /\ tresult[f] = Exc("OcrError", "No images produced by pdftoppm")
            /\ Len(calls[f]) = 1

\* pdftoppm returned, wrote no file and no bytes, and the run has raised
C12_Witness ==
    /\ FileRasterized(1, 0, FALSE)
    /\ tresult[1].type = "OcrError"
    /\ "tesseract" \in binaries

\* C13: the invocation history of a file-based run starts with the one
\* pdftoppm call; every later invocation is tesseract on an image file, the
\* j-th of them on the j-th image in page order; every invocation but the
\* last has returned; a run that returned text for k image files made
\* exactly 1 + k invocations.
C13_SequentialInvocations ==
    \A f \in Futures :
        calls[f] # << >> =>
            /\ calls[f][1].tool = "pdftoppm"
            /\ \A j \in 2..Len(calls[f]) : calls[f][j].tool = "tesseract"
            /\ \A j \in 1..(Len(calls[f]) - 1) : calls[f][j].rc = "ok"
            /\ calls[f][1].out >= 1 =>
                 /\ Len(calls[f]) <= 1 + calls[f][1].out
                 /\ \A j \in 2..Len(calls[f]) :
                       /\ calls[f][j].mode = "image"
                       /\ calls[f][j].arg = j - 1
                 /\ tresult[f].type = "ok" =>
                       Len(calls[f]) = 1 + calls[f][1].out

\* a three-page document: four invocations, all returned
C13_Witness ==
    /\ FileRasterized(1, 3, FALSE)
    /\ Len(calls[1]) = 4
    /\ \A j \in 1..4 : calls[1][j].rc = "ok"
    /\ tstate[1] = "done"

\* the runs that are inside their with-block
InsideWith == { f \in Futures : tmpdir[f] # 0 }

\* C14: no two runs hold the same temporary directory; the directory of a
\* run inside its with-block exists; every directory that exists is held by
\* a run that has not ended, so the directory of a run that has ended (by
\* returning or by raising) is gone, and none is left when the process ends.
C14_TmpdirOwnedAndRemoved ==
    /\ \A f, g \in InsideWith : f # g => tmpdir[f] # tmpdir[g]
    /\ \A f \in Futures :
          tstep[f] \in {"rasterize", "tess_stdin", "pages"} => tmpdir[f] \in fs
    /\ fs = { tmpdir[f] : f \in { g \in InsideWith : tstate[g] = "running" } }
    /\ \A f \in Futures : tstate[f] = "done" => tmpdir[f] = 0
    /\ pc \in Terminal => fs = {}

\* the first run has ended by raising for a failed pdftoppm while the
\* second is recognizing pages: only the directory of the second exists
C14_Witness ==
    /\ Len(pdfs) = 2
    /\ tstate[1] = "done"
    /\ tresult[1] = Exc("OcrError", "pdftoppm failed")
    /\ tstep[2] = "pages"
    /\ tmpdir[2] # 0
    /\ fs = { tmpdir[2] }

CapRead == \E f \in Futures : tstep[f] \notin {"idle", "enter"}

\* assignments to _STREAMING_SUPPORTED made so far: one per probe that
\* returned, one per fast-path pdftoppm call that returned without stdout
CapWrites ==
    Cardinality({ i \in 1..Len(probes) : probes[i].ret # "raised" })
    + Cardinality({ c \in { << f, j >> : f \in Futures, j \in 1..MaxPages + 2 } :
                      /\ c[2] <= Len(calls[c[1]])
                      /\ calls[c[1]][c[2]].mode = "stdout"
                      /\ calls[c[1]][c[2]].rc = "ok"
                      /\ calls[c[1]][c[2]].pipe = 0 })

Downgraded ==
    \E f \in Futures : \E j \in 1..Len(calls[f]) :
        /\ calls[f][j].mode = "stdout"
        /\ calls[f][j].rc = "ok"
        /\ calls[f][j].pipe = 0

C19_PinnedFileBasedOnly ==
    /\ STREAMING_SUPPORTED = "False"
    /\ probes = << >>
    /\ \A f \in Futures :
          /\ tstep[f] \notin {"probe", "select", "stream", "stream_tess"}
          /\ \A j \in 1..Len(calls[f]) :
                /\ calls[f][j].mode \in {"prefix", "image", "stdin"}
                /\ calls[f][j].tool = "pdftoppm" => calls[f][j].mode = "prefix"

\* a batch of two documents, both recognized from image files
C19_Witness ==
    /\ pc = "done"
    /\ Len(pdfs) = 2
    /\ \A f \in Futures :
          /\ tresult[f].type = "ok"
          /\ calls[f][1].mode = "prefix"
          /\ calls[f][1].out >= 1

\* C20: an invocation through run_cmd of an executable that is not on the
\* search path raised MissingBinaryError and logged one error; it is the
\* last invocation of its run, and the run has ended with the
\* MissingBinaryError that names that executable.
C20_MissingBinaryNamed ==
    \A f \in Futures : \A j \in 1..Len(calls[f]) :
        calls[f][j].tool \notin binaries =>
            /\ calls[f][j].rc = "MissingBinaryError"
            /\ calls[f][j].logged = 1
            /\ j = Len(calls[f])
            /\ tstate[f] = "done"
            /\ tresult[f] = Exc("MissingBinaryError", calls[f][j].tool)

\* pdftoppm ran and wrote three images, tesseract is not on the path
C20_Witness ==
    /\ FileRasterized(1, 3, FALSE)
    /\ Len(calls[1]) = 2
    /\ calls[1][2].tool = "tesseract"
    /\ calls[1][2].rc = "MissingBinaryError"
    /\ tresult[1] = Exc("MissingBinaryError", "tesseract")

\* C21: a run_cmd call on an executable that was found returns if and only
\* if the exit code of the process is in ok_exit_codes; what it returns
\* holds the captured stdout and stderr of the process; otherwise it raises
\* CalledProcessError holding that exit code and the captured stderr.
C21_ReturnsIffAccepted ==
    \A f \in Futures : \A j \in 1..Len(calls[f]) :
        LET c == calls[f][j] IN
        c.tool \in binaries =>
            /\ c.res.kind = "returned" <=> c.returncode \in c.ok_exit_codes
            /\ c.res.kind \in {"returned", "CalledProcessError"}
            /\ c.res.returncode = c.returncode
            /\ c.capture_output => c.res.stderr = c.stderr
            /\ (c.capture_output /\ c.res.kind = "returned") =>
                  c.res.stdout = c.stdout
            /\ tresult[f].type = "ok" <=> c.res.kind = "returned"

\* exit code 1 was accepted by ok_exit_codes = (0, 1): the process with
\* bytes on stderr is returned
C21_Witness ==
    /\ calls[1] # << >>
    /\ calls[1][1].tool \in binaries
    /\ calls[1][1].ok_exit_codes = {0, 1}
    /\ calls[1][1].returncode = 1
    /\ calls[1][1].capture_output
    /\ calls[1][1].stderr = 1
    /\ tresult[1].type = "ok"

\* C22: the number of futures whose ocr_pdf call is in progress never
\* exceeds the size of the pool.
C22_InFlightBounded == Cardinality(Running) <= max_workers

\* a pool of one worker: the first document is being rasterized while the
\* second waits in the queue
C22_Witness ==
    /\ max_workers = 1
    /\ Len(pdfs) = 2
    /\ tstate[1] = "running"
    /\ tstep[1] = "rasterize"
    /\ tstate[2] = "pending"

\* C23: print is called at most once; when main is past the collecting loop
\* or has printed, every future has finished and has been yielded; a run
\* that ended normally has printed exactly once.
C23_EmitAfterAllDone ==
    /\ Len(printed) <= 1
    /\ (printed # << >> \/ pc \in {"emit", "done"}) =>
          \A f \in Futures : tstate[f] = "done" /\ f \in yielded
    /\ pc = "done" => Len(printed) = 1

\* one worker, two documents: the batch was printed after the second task,
\* which started only when the first had failed
C23_Witness ==
    /\ pc = "done"
    /\ max_workers = 1
    /\ Len(pdfs) = 2
    /\ Len(printed) = 1
    /\ tresult[1].type = "OcrError"
    /\ tresult[2].type = "ok"

\* text is k >= 1 page blocks numbered 1..k in this order, joined by "\n"
IsPageBlocks(t) ==
    \E k \in 1..Len(t) :
        /\ Len(t) = 6 * k - 1
        /\ \A i \in 1..k :
              LET o == 6 * (i - 1) IN
              /\ t[o + 1] = OpenTag(i)
              /\ t[o + 2] = NL
              /\ t[o + 3].k = "text"
              /\ t[o + 4] = NL
              /\ t[o + 5] = CloseTag(i)
              /\ i < k => t[o + 6] = NL

C28_RecordOfOwnTask ==
    pc \in {"emit", "done"} =>
        \A i \in 1..Len(pdfs) : results[i] = RecordFor(pdfs[i], tresult[i])

\* the pdftoppm invocations of a run
RasterizerCalls(f) == { j \in 1..Len(calls[f]) : calls[f][j].tool = "pdftoppm" }

\* C29: every submitted future is bound to the path of its own position and
\* to the dpi and language of the run; no run rasterizes twice; when main
\* is past the collecting loop every future has run its pipeline once,
\* whatever the other futures ended with.
C29_EachRequestRunOnce ==
    /\ \A f \in Futures :
          /\ tstate[f] # "new" => targ[f] = CallArg(pdfs[f], "args.dpi", "args.lang")
          /\ Cardinality(RasterizerCalls(f)) <= 1
    /\ pc \in {"emit", "done"} =>
          \A f \in Futures :
              /\ tstate[f] = "done"
              /\ Cardinality(RasterizerCalls(f)) = 1

\* two different documents on a pool of MaxWorkers: pdftoppm failed for the
\* first, the second was recognized all the same
C29_Witness ==
    /\ pc = "done"
    /\ max_workers = MaxWorkers
    /\ Len(pdfs) = 2
    /\ pdfs[1] # pdfs[2]
    /\ tresult[1] = Exc("OcrError", "pdftoppm failed")
    /\ Len(calls[1]) = 1
    /\ tresult[2].type = "ok"

\* what the temporary-directory path makes of the outcomes of the tools it
\* invoked for one document
OwnOutcome(h) ==
    LET last == h[Len(h)] IN
    IF last.rc = "MissingBinaryError" THEN Exc("MissingBinaryError", last.tool)
    ELSE IF last.rc = "CalledProcessError"
    THEN Exc("OcrError",
             IF last.tool = "pdftoppm" THEN "pdftoppm failed"
             ELSE IF last.mode = "stdin"
             THEN "tesseract failed during streaming fallback"
             ELSE "tesseract failed on image")
    ELSE IF h[1].out = 0 /\ h[1].pipe = 0
    THEN Exc("OcrError", "No images produced by pdftoppm")
    ELSE IF h[1].out = 0
    THEN Ok(PageBlock(1, Decode(h[2].out)))
    ELSE Ok(WrapPages([ i \in 1..h[1].out |-> Decode(h[i + 1].out) ]))

\* C30: the record printed at position i is a function of the document at
\* position i and of the outcomes of the tool invocations made for that
\* position alone.
C30_RecordDependsOnOwnOutcomes ==
    pc = "done" =>
        \A i \in 1..Len(pdfs) :
            printed[1][i] = RecordFor(pdfs[i], OwnOutcome(calls[i]))

\* C25: process_pdf runs OCR at most once and, when it ends after OCR,
\* exactly once; segment_pdf is called at most once, only with analyze set
\* and with the text that ocr_pdf returned, and it is called whenever OCR
\* returned and analyze is set; without analyze the {file, ocr_text}
\* record is returned, with analyze what segment_pdf returned; for a path
\* that is no existing file FileNotFoundError is raised and neither OCR nor
\* segmentation has been invoked.
C25_ProcessPdf ==
    LET ended == pc \in {"returned", "raised"} IN
    /\ Cardinality(RasterizerCalls(1)) <= 1
    /\ Len(llm_calls) <= 1
    /\ llm_calls # << >> =>
          /\ analyze
          /\ tresult[1].type = "ok"
          /\ llm_calls[1].text = tresult[1].val
    /\ (ended /\ pdfs[1] \in existing) =>
          /\ tstate[1] = "done"
          /\ Cardinality(RasterizerCalls(1)) = 1
    /\ (ended /\ tresult[1].type = "ok") => (Len(llm_calls) = 1 <=> analyze)
    /\ (pc = "returned" /\ ~analyze) =>
          ret = Ok([file |-> Name(pdfs[1]), ocr_text |-> tresult[1].val])
    /\ (pc = "returned" /\ analyze) => ret = llm_calls[1].res
    /\ (pc # "process_pdf" /\ pdfs[1] \notin existing) =>
          /\ pc = "raised"
          /\ ret = Exc("FileNotFoundError", pdfs[1])
          /\ tstate[1] = "new"
          /\ calls[1] = << >>
          /\ llm_calls = << >>

\* analyze is set, the two pages were recognized and the segmentation
\* result was returned as it came
C25_Witness ==
    /\ pc = "returned"
    /\ analyze
    /\ DocPages(pdfs[1]) = 2
    /\ tresult[1].type = "ok"
    /\ Len(llm_calls) = 1
    /\ ret = Ok([documents |-> "segments"])

\* the number of logger.error calls of the requests made so far
RECURSIVE LoggedIn(_)
LoggedIn(h) == IF h = << >> THEN 0 ELSE h[1].logged + LoggedIn(Tail(h))

\* C26: a request whose API call raised an Exception did not raise out of
\* process_with_gpt: it returned a dict whose "error" message is
\* "API error: " followed by the text of the exception, and logged one
\* error; an empty response and a response that is no JSON returned a dict
\* with an "error" key too. main has logged nothing besides and went on.
C26_ApiErrorsAreReturned ==
    /\ \A i \in 1..Len(llm_calls) :
          LET c == llm_calls[i] IN
          /\ c.o.kind = "raises" =>
                /\ ~c.raised
                /\ DOMAIN c.res = {"error"}
                /\ c.res.error = << "API error: ", c.o.msg >>
                /\ c.logged = 1
          /\ c.o.kind \in {"empty_content", "invalid_json"} =>
                /\ ~c.raised
                /\ DOMAIN c.res = {"error"}
    /\ llm_calls # << >> =>
          /\ pc # "exit"
          /\ log_errors = LoggedIn(llm_calls)

\* two requests: the first timed out, the second was answered with an
\* empty message; both error dicts were printed
C26_Witness ==
    /\ pc = "done"
    /\ Len(llm_calls) = 2
    /\ llm_calls[1].o = [kind |-> "raises", msg |-> "Request timed out"]
    /\ llm_calls[2].o.kind = "empty_content"
    /\ log_errors = 1
    /\ printed[1][1].analysis = [error |-> << "API error: ", "Request timed out" >>]

\* "if not ocr_text" for the text that doc.get("ocr_text", "") gives
HasText(doc) == DocGet(doc, "ocr_text", "") # ""

\* the documents of docs that carry text, in the order of docs
WithText(docs) == SelectSeq(docs, HasText)

\* C27: main takes the documents in input order; after n documents the
\* requests made are those for the documents with text among the first n,
\* in this order, results holds one {file, analysis} record for each of
\* them with the answer to its request, and one warning was logged for
\* each of the others; what is printed is this list for the whole input.
C27_OneRecordPerTextDocument ==
    LET taken == SubSeq(documents, 1, sub)
        texts == WithText(taken)
    IN
    /\ Len(llm_calls) = Len(texts)
    /\ Len(results) = Len(texts)
    /\ log_warnings = Len(taken) - Len(texts)
    /\ \A k \in 1..Len(texts) :
          /\ llm_calls[k].text = texts[k].ocr_text
          /\ results[k] = [file |-> DocGet(texts[k], "file", "unknown"),
                           analysis |-> llm_calls[k].res]
    /\ pc = "done" =>
          /\ sub = Len(documents)
          /\ printed = << results >>

\* the first document has no text, the second has: one warning, one
\* request, one record
C27_Witness ==
    /\ pc = "done"
    /\ Len(documents) = 2
    /\ documents[1] = [file |-> "b.pdf", ocr_text |-> ""]
    /\ documents[2] = [file |-> "a.pdf", ocr_text |-> "deed"]
    /\ log_warnings = 1
    /\ Len(llm_calls) = 1
    /\ Len(printed[1]) = 1
    /\ printed[1][1].file = "a.pdf"

\* the tesseract invocations of a run
RecognizerCalls(f) == { j \in 1..Len(calls[f]) : calls[f][j].tool = "tesseract" }

C33_ReorderLookupSucceeds ==
    /\ pc # "crashed"
    /\ (pc = "collect" /\ Exhausted(yielded, Futures)) =>
          \A i \in 1..Len(pdfs) : pdfs[i] \in DictKeys(completed)
    /\ pc \in {"emit", "done"} => Len(results) = Len(pdfs)

\* the same path at both positions: one key serves two lookups, the record
\* stored last is an error record
C33_Witness ==
    /\ pc = "emit"
    /\ Len(pdfs) = 2
    /\ pdfs[1] = pdfs[2]
    /\ Cardinality(DictKeys(completed)) = 1
    /\ Len(results) = 2
    /\ "error" \in DOMAIN results[1]

\* C34: under fair scheduling, with every external process terminating,
\* a batch run reaches a final state and stays there: it has printed the
\* batch once, or it has exited with status 1 before scheduling anything;
\* in either case no future is left queued or running.
C34_BatchTerminates ==
    <>[](/\ \/ pc = "done" /\ Len(printed) = 1 /\ exit_status = 0
            \/ pc \in {"fatal", "import_error"} /\ exit_status = 1
                 /\ printed = << >>
         /\ \A f \in Futures : tstate[f] \in {"new", "done"})

\* more documents than threads: MaxDocs documents went through a pool of
\* one thread and the batch was printed
C34_Witness ==
    /\ pc = "done"
    /\ max_workers = 1
    /\ Len(pdfs) = MaxDocs
    /\ \A f \in Futures : tresult[f].type = "ok"
    /\ Len(printed) = 1

\* C35: at most one OpenAI client is ever constructed, and all threads that
\* got a client from _get_client got the same one.
C35_SingletonClient ==
    /\ instances <= 1
    /\ \A f, g \in Futures :
          (tclient[f] # 0 /\ tclient[g] # 0) => tclient[f] = tclient[g]

\* C36: send never raises once it has a client: it returns the JSON object
\* of the model or a dict with an "error" key, and for an API call that
\* raised an Exception the dict {"error": "API error: ..."}.
C36_SendReturnsErrorDict ==
    \A i \in 1..Len(llm_calls) :
        LET c == llm_calls[i] IN
        /\ c.res.type = "ok"
        /\ c.o = "json_object" \/ DOMAIN c.res.val = {"error"}
        /\ c.o = "api_raises" => c.res.val = [error |-> "API error"]

====
